---------------------------- MODULE Spec2Model ----------------------------
(***************************************************************************)
(* Video Downloader API (src/main.py): the /info, /download, /stream and   *)
(* /proxy-download handlers, the metadata cache, the worker pool and the   *)
(* child process relayed by /stream.                                       *)
(*                                                                         *)
(* Python str values are sequences of one-character strings, so that       *)
(* lower(), "in", slicing, replace() and concatenation are computed.       *)
(* Optional[str] is a sequence of length 0 (None) or 1 (the str).          *)
(***************************************************************************)
EXTENDS Integers, Sequences, FiniteSets, TLC

VARIABLES
    now,            \* time.time(), in seconds
    video_cache,    \* main.py:41, cache key -> entry (or NoEntry)
    work_queue,     \* executor's queue of submitted work items (request ids)
    req,            \* per request: endpoint, inputs, position in the handler
    resp,           \* per request: what the client has been sent
    proc,           \* per request: the child process of generate()
    arg,            \* input of the pure functions (format resolver, classifier)
    res             \* their result

vars == <<now, video_cache, work_queue, req, resp, proc, arg, res>>

server_vars == <<now, video_cache, work_queue, req, resp, proc>>

-----------------------------------------------------------------------------
(* Bounds of the model *)

MaxTime == 600

MaxChunks == 2

MaxWords == 2

\* diagnostics the error pipe and its reader's buffer hold, in writes
PipeCapacity == 1

(* Program constants *)

CACHE_TTL == 300

max_workers == 4

DetailLimit == 200

StreamDetailLimit == 100

TitleLimit == 50

HeaderTitleLimit == 100

DescriptionLimit == 500

MaxFormats == 10

-----------------------------------------------------------------------------
(* Python str and Optional *)

None == <<>>

Some(s) == <<s>>

\* Python truthiness of an Optional[str]: None and "" are falsy
Truthy(o) == o # None /\ o[1] # <<>>

UpperAlpha == <<"A","B","C","D","E","F","G","H","I","J","K","L","M","N","O","P","Q","R","S","T","U","V","W","X","Y","Z">>

LowerAlpha == <<"a","b","c","d","e","f","g","h","i","j","k","l","m","n","o","p","q","r","s","t","u","v","w","x","y","z">>

Digits == <<"0","1","2","3","4","5","6","7","8","9">>

Range(s) == {s[i] : i \in DOMAIN s}

LowerChar(c) ==
    IF c \in Range(UpperAlpha)
    THEN LowerAlpha[CHOOSE i \in DOMAIN UpperAlpha : UpperAlpha[i] = c]
    ELSE c

\* str.lower()
Lower(s) == [i \in DOMAIN s |-> LowerChar(s[i])]

\* sub in s
Contains(sub, s) ==
    \E i \in 0..(Len(s) - Len(sub)) : SubSeq(s, i + 1, i + Len(sub)) = sub

\* s[:n]
Take(s, n) == SubSeq(s, 1, IF Len(s) < n THEN Len(s) ELSE n)

\* s.replace(c, "") for a one-character c
RemoveChar(s, c) == SelectSeq(s, LAMBDA x : x # c)

\* c.isalnum() on the model's alphabet
IsAlnum(c) == c \in Range(UpperAlpha) \cup Range(LowerAlpha) \cup Range(Digits)

\* s.strip() for spaces
RECURSIVE LStrip(_)
LStrip(s) == IF s # <<>> /\ Head(s) = " " THEN LStrip(Tail(s)) ELSE s

RECURSIVE RStrip(_)
RStrip(s) ==
    IF s # <<>> /\ s[Len(s)] = " " THEN RStrip(SubSeq(s, 1, Len(s) - 1)) ELSE s

Strip(s) == LStrip(RStrip(s))

\* str(n) for n >= 0
RECURSIVE IntToStr(_)
IntToStr(n) ==
    IF n < 10 THEN <<Digits[n + 1]>>
    ELSE IntToStr(n \div 10) \o <<Digits[(n % 10) + 1]>>

-----------------------------------------------------------------------------
(* main.py:61-62.  The digest is not computed: a key is the hash of its    *)
(* url, equal keys exactly for equal urls.                                 *)
get_cache_key(url) == <<"md5", url>>

\* the substrings looked for in the url as given, without lower()
detect_platform_case_sensitive(url) ==
    IF Contains(<<"y","o","u","t","u","b","e",".","c","o","m">>, url) \/ Contains(<<"y","o","u","t","u",".","b","e">>, url)
    THEN "youtube"
    ELSE IF Contains(<<"v","k",".","c","o","m">>, url) \/ Contains(<<"v","k",".","r","u">>, url)
            \/ Contains(<<"v","k","v","i","d","e","o",".","r","u">>, url)
    THEN "vk"
    ELSE IF Contains(<<"t","i","k","t","o","k",".","c","o","m">>, url) THEN "tiktok"
    ELSE IF Contains(<<"r","u","t","u","b","e",".","r","u">>, url) THEN "rutube"
    ELSE IF Contains(<<"o","k",".","r","u">>, url) THEN "ok"
    ELSE IF Contains(<<"d","z","e","n",".","r","u">>, url) THEN "dzen"
    ELSE "generic"

\* the rule of ok tested first
detect_platform_ok_first(url) ==
    LET url_lower == Lower(url) IN
    IF Contains(<<"o","k",".","r","u">>, url_lower) THEN "ok"
    ELSE IF Contains(<<"y","o","u","t","u","b","e",".","c","o","m">>, url_lower) \/ Contains(<<"y","o","u","t","u",".","b","e">>, url_lower)
    THEN "youtube"
    ELSE IF Contains(<<"v","k",".","c","o","m">>, url_lower) \/ Contains(<<"v","k",".","r","u">>, url_lower)
            \/ Contains(<<"v","k","v","i","d","e","o",".","r","u">>, url_lower)
    THEN "vk"
    ELSE IF Contains(<<"t","i","k","t","o","k",".","c","o","m">>, url_lower) THEN "tiktok"
    ELSE IF Contains(<<"r","u","t","u","b","e",".","r","u">>, url_lower) THEN "rutube"
    ELSE IF Contains(<<"d","z","e","n",".","r","u">>, url_lower) THEN "dzen"
    ELSE "generic"

(* main.py:71-85 *)
detect_platform(url) ==
    LET url_lower == Lower(url) IN
    IF Contains(<<"y","o","u","t","u","b","e",".","c","o","m">>, url_lower) \/ Contains(<<"y","o","u","t","u",".","b","e">>, url_lower)
    THEN "youtube"
    ELSE IF Contains(<<"v","k",".","c","o","m">>, url_lower) \/ Contains(<<"v","k",".","r","u">>, url_lower)
            \/ Contains(<<"v","k","v","i","d","e","o",".","r","u">>, url_lower)
    THEN "vk"
    ELSE IF Contains(<<"t","i","k","t","o","k",".","c","o","m">>, url_lower) THEN "tiktok"
    ELSE IF Contains(<<"r","u","t","u","b","e",".","r","u">>, url_lower) THEN "rutube"
    ELSE IF Contains(<<"o","k",".","r","u">>, url_lower) THEN "ok"
    ELSE IF Contains(<<"d","z","e","n",".","r","u">>, url_lower) THEN "dzen"
    ELSE "generic"

(* main.py:88-133.  Header values are kept as tags. *)
get_ydl_opts(platform) ==
    LET base_opts == [quiet |-> TRUE, no_warnings |-> TRUE, noplaylist |-> TRUE,
                      socket_timeout |-> 60, retries |-> 5,
                      fragment_retries |-> 5, extractor_retries |-> 3,
                      user_agent |-> "chrome", accept_language |-> "",
                      referer |-> "", accept |-> "",
                      extract_flat |-> "unset", format |-> None]
    IN  IF platform = "youtube"
        THEN [base_opts EXCEPT !.socket_timeout = 90,
                               !.accept_language = "en-US,en;q=0.9"]
        ELSE IF platform = "vk"
        THEN [base_opts EXCEPT !.accept_language = "ru-RU,ru;q=0.9",
                               !.referer = "https://vk.com/"]
        ELSE IF platform = "tiktok"
        THEN [base_opts EXCEPT !.user_agent = "tiktok-app", !.accept = "*/*"]
        ELSE base_opts

-----------------------------------------------------------------------------
(* Failures *)

HTTPException(status_code, detail) ==
    [status |-> status_code, detail |-> detail]

\* the "unavailable" test made without lower()
info_download_error_case_sensitive(error_msg) ==
    IF Contains(<<"S","i","g","n"," ","i","n">>, error_msg) \/ Contains(<<"b","o","t">>, Lower(error_msg))
    THEN HTTPException(403, <<"P","l","a","t","f","o","r","m"," ","r","e","q","u","i","r","e","s"," ","a","u","t","h","o","r","i","z","a","t","i","o","n">>)
    ELSE IF Contains(<<"P","r","i","v","a","t","e">>, error_msg)
    THEN HTTPException(403, <<"V","i","d","e","o"," ","i","s"," ","p","r","i","v","a","t","e">>)
    ELSE IF Contains(<<"u","n","a","v","a","i","l","a","b","l","e">>, error_msg)
    THEN HTTPException(404, <<"V","i","d","e","o"," ","u","n","a","v","a","i","l","a","b","l","e"," ","o","r"," ","d","e","l","e","t","e","d">>)
    ELSE IF Contains(<<"g","e","o">>, Lower(error_msg))
            \/ Contains(<<"c","o","u","n","t","r","y">>, Lower(error_msg))
    THEN HTTPException(403, <<"V","i","d","e","o"," ","n","o","t"," ","a","v","a","i","l","a","b","l","e"," ","i","n"," ","y","o","u","r"," ","r","e","g","i","o","n">>)
    ELSE HTTPException(500, <<"E","x","t","r","a","c","t","i","o","n"," ","e","r","r","o","r",":"," ">> \o Take(error_msg, DetailLimit))

(* main.py:257-268, the except yt_dlp.DownloadError branch of /info *)
info_download_error(error_msg) ==
    IF Contains(<<"S","i","g","n"," ","i","n">>, error_msg) \/ Contains(<<"b","o","t">>, Lower(error_msg))
    THEN HTTPException(403, <<"P","l","a","t","f","o","r","m"," ","r","e","q","u","i","r","e","s"," ","a","u","t","h","o","r","i","z","a","t","i","o","n">>)
    ELSE IF Contains(<<"P","r","i","v","a","t","e">>, error_msg)
    THEN HTTPException(403, <<"V","i","d","e","o"," ","i","s"," ","p","r","i","v","a","t","e">>)
    ELSE IF Contains(<<"u","n","a","v","a","i","l","a","b","l","e">>, Lower(error_msg))
    THEN HTTPException(404, <<"V","i","d","e","o"," ","u","n","a","v","a","i","l","a","b","l","e"," ","o","r"," ","d","e","l","e","t","e","d">>)
    ELSE IF Contains(<<"g","e","o">>, Lower(error_msg))
            \/ Contains(<<"c","o","u","n","t","r","y">>, Lower(error_msg))
    THEN HTTPException(403, <<"V","i","d","e","o"," ","n","o","t"," ","a","v","a","i","l","a","b","l","e"," ","i","n"," ","y","o","u","r"," ","r","e","g","i","o","n">>)
    ELSE HTTPException(500, <<"E","x","t","r","a","c","t","i","o","n"," ","e","r","r","o","r",":"," ">> \o Take(error_msg, DetailLimit))

(* main.py:351-360, the except yt_dlp.DownloadError branch of /download *)
download_download_error(error_msg) ==
    IF Contains(<<"S","i","g","n"," ","i","n">>, error_msg) \/ Contains(<<"b","o","t">>, Lower(error_msg))
    THEN HTTPException(403, <<"P","l","a","t","f","o","r","m"," ","r","e","q","u","i","r","e","s"," ","a","u","t","h","o","r","i","z","a","t","i","o","n">>)
    ELSE IF Contains(<<"P","r","i","v","a","t","e">>, error_msg)
    THEN HTTPException(403, <<"V","i","d","e","o"," ","i","s"," ","p","r","i","v","a","t","e">>)
    ELSE IF Contains(<<"u","n","a","v","a","i","l","a","b","l","e">>, Lower(error_msg))
    THEN HTTPException(404, <<"V","i","d","e","o"," ","u","n","a","v","a","i","l","a","b","l","e">>)
    ELSE HTTPException(500, <<"E","r","r","o","r",":"," ">> \o Take(error_msg, DetailLimit))

-----------------------------------------------------------------------------
(* Format resolution *)

\* request.quality or "best"
quality_or_best(quality) == IF Truthy(quality) THEN quality[1] ELSE <<"b","e","s","t">>

Tiers == {<<"1","0","8","0","p">>, <<"7","2","0","p">>, <<"4","8","0","p">>, <<"3","6","0","p">>}

\* the quality tested before the format id
download_format_spec_quality_first(format_id, quality_in) ==
    LET quality == quality_or_best(quality_in) IN
    IF quality = <<"a","u","d","i","o">> THEN <<"b","e","s","t","a","u","d","i","o","/","b","e","s","t">>
    ELSE IF Truthy(format_id) THEN format_id[1]
    ELSE IF quality = <<"b","e","s","t">> THEN <<"b","e","s","t","/","b","e","s","t","v","i","d","e","o","+","b","e","s","t","a","u","d","i","o">>
    ELSE IF quality \in Tiers
    THEN LET height == RemoveChar(quality, "p")
         IN  <<"b","e","s","t","v","i","d","e","o","[","h","e","i","g","h","t","<","=">> \o height \o <<"]","+","b","e","s","t","a","u","d","i","o","/","b","e","s","t","[","h","e","i","g","h","t","<","=">>
                 \o height \o <<"]","/","b","e","s","t">>
    ELSE <<"b","e","s","t">>

\* the tier's label used as the cap, its "p" left in place
download_format_spec_label_as_cap(format_id, quality_in) ==
    LET quality == quality_or_best(quality_in) IN
    IF Truthy(format_id) THEN format_id[1]
    ELSE IF quality = <<"a","u","d","i","o">> THEN <<"b","e","s","t","a","u","d","i","o","/","b","e","s","t">>
    ELSE IF quality = <<"b","e","s","t">> THEN <<"b","e","s","t","/","b","e","s","t","v","i","d","e","o","+","b","e","s","t","a","u","d","i","o">>
    ELSE IF quality \in Tiers
    THEN LET height == quality
         IN  <<"b","e","s","t","v","i","d","e","o","[","h","e","i","g","h","t","<","=">> \o height \o <<"]","+","b","e","s","t","a","u","d","i","o","/","b","e","s","t","[","h","e","i","g","h","t","<","=">>
                 \o height \o <<"]","/","b","e","s","t">>
    ELSE <<"b","e","s","t">>

(* main.py:279-294 *)
download_format_spec(format_id, quality_in) ==
    LET quality == quality_or_best(quality_in) IN
    IF Truthy(format_id) THEN format_id[1]
    ELSE IF quality = <<"a","u","d","i","o">> THEN <<"b","e","s","t","a","u","d","i","o","/","b","e","s","t">>
    ELSE IF quality = <<"b","e","s","t">> THEN <<"b","e","s","t","/","b","e","s","t","v","i","d","e","o","+","b","e","s","t","a","u","d","i","o">>
    ELSE IF quality \in Tiers
    THEN LET height == RemoveChar(quality, "p")
         IN  <<"b","e","s","t","v","i","d","e","o","[","h","e","i","g","h","t","<","=">> \o height \o <<"]","+","b","e","s","t","a","u","d","i","o","/","b","e","s","t","[","h","e","i","g","h","t","<","=">>
                 \o height \o <<"]","/","b","e","s","t">>
    ELSE <<"b","e","s","t">>

\* the fallback of /download copied into /stream
stream_format_spec_plain_fallback(format_id, quality_in) ==
    LET quality == quality_or_best(quality_in) IN
    IF Truthy(format_id) THEN format_id[1]
    ELSE IF quality = <<"a","u","d","i","o">> THEN <<"b","e","s","t","a","u","d","i","o","[","e","x","t","=","m","4","a","]","/","b","e","s","t","a","u","d","i","o","/","b","e","s","t">>
    ELSE IF quality = <<"b","e","s","t">> THEN <<"b","e","s","t","[","e","x","t","=","m","p","4","]","/","b","e","s","t">>
    ELSE IF quality \in Tiers
    THEN LET height == RemoveChar(quality, "p")
         IN  <<"b","e","s","t","[","h","e","i","g","h","t","<","=">> \o height \o <<"]","[","e","x","t","=","m","p","4","]","/","b","e","s","t","[","h","e","i","g","h","t","<","=">>
                 \o height \o <<"]","/","b","e","s","t">>
    ELSE <<"b","e","s","t">>

\* the chains of /download used for the child process
stream_format_spec_merging(format_id, quality_in) ==
    download_format_spec(format_id, quality_in)

(* main.py:375, 398-409 *)
stream_format_spec(format_id, quality_in) ==
    LET quality == quality_or_best(quality_in) IN
    IF Truthy(format_id) THEN format_id[1]
    ELSE IF quality = <<"a","u","d","i","o">> THEN <<"b","e","s","t","a","u","d","i","o","[","e","x","t","=","m","4","a","]","/","b","e","s","t","a","u","d","i","o","/","b","e","s","t">>
    ELSE IF quality = <<"b","e","s","t">> THEN <<"b","e","s","t","[","e","x","t","=","m","p","4","]","/","b","e","s","t">>
    ELSE IF quality \in Tiers
    THEN LET height == RemoveChar(quality, "p")
         IN  <<"b","e","s","t","[","h","e","i","g","h","t","<","=">> \o height \o <<"]","[","e","x","t","=","m","p","4","]","/","b","e","s","t","[","h","e","i","g","h","t","<","=">>
                 \o height \o <<"]","/","b","e","s","t">>
    ELSE <<"b","e","s","t","[","e","x","t","=","m","p","4","]","/","b","e","s","t">>

-----------------------------------------------------------------------------
(* Engine metadata.  A raw format is a record                              *)
(*   [format_id, ext, vcodec, acodec, height, resolution, filesize,        *)
(*    filesize_approx, url];                                               *)
(* vcodec/acodec "missing" is an absent key, height 0 an absent, None or   *)
(* zero height, filesize 0 an absent or None size, ext "" an absent key.   *)

codec_or_none(c) == IF c = "missing" THEN "none" ELSE c

\* a or b, for sizes
SizeOr(a, b) == IF a # 0 THEN a ELSE b

ExtOr(ext, default) == IF ext = "" THEN default ELSE ext

(* main.py:193-218, the display entry of one raw format (<<>> when the     *)
(* format has neither codec)                                               *)
format_entry(f) ==
    LET vcodec == codec_or_none(f.vcodec)
        acodec == codec_or_none(f.acodec)
    IN  IF vcodec = "none" /\ acodec # "none"
        THEN << [format_id |-> f.format_id, ext |-> ExtOr(f.ext, "mp3"),
                 quality |-> <<"a","u","d","i","o">>, resolution |-> <<"A","u","d","i","o"," ","o","n","l","y">>,
                 filesize |-> SizeOr(f.filesize, f.filesize_approx),
                 has_audio |-> TRUE, has_video |-> FALSE, height |-> 0] >>
        ELSE IF vcodec # "none"
        THEN LET height == f.height IN
             << [format_id |-> f.format_id, ext |-> ExtOr(f.ext, "mp4"),
                 quality |-> IF height # 0 THEN IntToStr(height) \o <<"p">>
                                           ELSE <<"u","n","k","n","o","w","n">>,
                 resolution |-> IF f.resolution # None THEN f.resolution[1]
                                ELSE IntToStr(height) \o <<"p">>,
                 filesize |-> SizeOr(f.filesize, f.filesize_approx),
                 has_audio |-> acodec # "none", has_video |-> TRUE,
                 height |-> height] >>
        ELSE << >>

(* main.py:191-218 *)
RECURSIVE format_entries(_)
format_entries(raw) ==
    IF raw = <<>> THEN <<>>
    ELSE format_entry(Head(raw)) \o format_entries(Tail(raw))

\* insertion of e before the entries of its own height: equal heights end up
\* in reverse order
RECURSIVE InsertByHeight_unstable(_, _)
InsertByHeight_unstable(sorted, e) ==
    IF sorted = <<>> THEN <<e>>
    ELSE IF Head(sorted).height > e.height
         THEN <<Head(sorted)>> \o InsertByHeight_unstable(Tail(sorted), e)
         ELSE <<e>> \o sorted

\* insertion of e after every entry at least as high: a stable descending sort
RECURSIVE InsertByHeight(_, _)
InsertByHeight(sorted, e) ==
    IF sorted = <<>> THEN <<e>>
    ELSE IF Head(sorted).height >= e.height
         THEN <<Head(sorted)>> \o InsertByHeight(Tail(sorted), e)
         ELSE <<e>> \o sorted

RECURSIVE SortByHeightDesc(_)
SortByHeightDesc(s) ==
    IF s = <<>> THEN <<>>
    ELSE InsertByHeight(SortByHeightDesc(SubSeq(s, 1, Len(s) - 1)), s[Len(s)])

(* main.py:220-224 *)
sorted_formats(formats) ==
    SortByHeightDesc(
        SelectSeq(formats, LAMBDA f : f.height > 0 \/ f.quality = <<"a","u","d","i","o">>))

(* main.py:226-232 *)
RECURSIVE unique_by_quality(_, _)
unique_by_quality(formats, seen) ==
    IF formats = <<>> THEN <<>>
    ELSE LET f == Head(formats) IN
         IF f.quality \notin seen
         THEN <<f>> \o unique_by_quality(Tail(formats), seen \cup {f.quality})
         ELSE unique_by_quality(Tail(formats), seen)

unique_formats(raw) ==
    unique_by_quality(sorted_formats(format_entries(raw)), {})

OrDefault(o, default) == IF o # None THEN o[1] ELSE default

(* main.py:234-248 *)
info_result(url, platform, info) ==
    [success |-> TRUE,
     platform |-> platform,
     data |-> [id |-> info.id,
               title |-> OrDefault(info.title, <<"U","n","k","n","o","w","n">>),
               description |-> Take(OrDefault(info.description, <<>>),
                                    DescriptionLimit),
               thumbnail |-> info.thumbnail,
               duration |-> info.duration,
               uploader |-> OrDefault(info.uploader, <<"U","n","k","n","o","w","n">>),
               view_count |-> info.view_count,
               webpage_url |-> OrDefault(info.webpage_url, url),
               formats |-> Take(unique_formats(info.formats), MaxFormats)]]

\* the url of the last requested format whose codec field is not "none"
RECURSIVE last_url(_, _, _)
last_url(requested, codec, acc) ==
    IF requested = <<>> THEN acc
    ELSE last_url(Tail(requested), codec,
                  IF Head(requested)[codec] # "none" THEN Head(requested).url
                  ELSE acc)

NoBody == [success |-> FALSE]

\* the first entry of the format list taken instead of the last
download_result_first_format(platform, info) ==
    LET url1 == info.url
        url2 == IF ~Truthy(url1) /\ info.formats # <<>>
                THEN info.formats[1].url ELSE url1
        video_url == last_url(info.requested_formats, "vcodec", None)
        audio_url == last_url(info.requested_formats, "acodec", None)
        common == [success |-> TRUE, platform |-> platform,
                   title |-> OrDefault(info.title, <<"v","i","d","e","o">>),
                   ext |-> ExtOr(info.ext, "mp4"),
                   duration |-> info.duration,
                   filesize |-> SizeOr(info.filesize, info.filesize_approx)]
    IN  IF ~Truthy(url2) /\ info.requested_formats # <<>> /\ Truthy(video_url)
        THEN [success |-> TRUE, platform |-> platform, title |-> common.title,
              ext |-> common.ext, download_url |-> video_url,
              audio_url |-> audio_url,
              needs_merge |-> audio_url # None /\ video_url # audio_url,
              duration |-> common.duration, filesize |-> common.filesize]
        ELSE IF ~Truthy(url2) THEN NoBody
        ELSE [success |-> TRUE, platform |-> platform, title |-> common.title,
              ext |-> common.ext, download_url |-> url2, audio_url |-> None,
              needs_merge |-> FALSE,
              duration |-> common.duration, filesize |-> common.filesize]

(* main.py:305-349: the body of a successful /download, NoBody when no url *)
(* can be derived                                                          *)
download_result(platform, info) ==
    LET url1 == info.url
        url2 == IF ~Truthy(url1) /\ info.formats # <<>>
                THEN info.formats[Len(info.formats)].url ELSE url1
        video_url == last_url(info.requested_formats, "vcodec", None)
        audio_url == last_url(info.requested_formats, "acodec", None)
        common == [success |-> TRUE, platform |-> platform,
                   title |-> OrDefault(info.title, <<"v","i","d","e","o">>),
                   ext |-> ExtOr(info.ext, "mp4"),
                   duration |-> info.duration,
                   filesize |-> SizeOr(info.filesize, info.filesize_approx)]
    IN  IF ~Truthy(url2) /\ info.requested_formats # <<>> /\ Truthy(video_url)
        THEN [success |-> TRUE, platform |-> platform, title |-> common.title,
              ext |-> common.ext, download_url |-> video_url,
              audio_url |-> audio_url,
              needs_merge |-> audio_url # None /\ video_url # audio_url,
              duration |-> common.duration, filesize |-> common.filesize]
        ELSE IF ~Truthy(url2) THEN NoBody
        ELSE [success |-> TRUE, platform |-> platform, title |-> common.title,
              ext |-> common.ext, download_url |-> url2, audio_url |-> None,
              needs_merge |-> FALSE,
              duration |-> common.duration, filesize |-> common.filesize]

(* main.py:389-392, 466-475: the headers of a /stream response *)
safe_title(title) ==
    Take(Strip(SelectSeq(title,
                         LAMBDA c : IsAlnum(c) \/ c \in {" ", "-", "_"})),
         TitleLimit)

stream_headers(info) ==
    LET title == OrDefault(info.title, <<"v","i","d","e","o">>) IN
    [filename |-> safe_title(title) \o <<".","m","p","4">>,
     x_video_title |-> Take(title, HeaderTitleLimit),
     x_video_duration |-> info.duration]

-----------------------------------------------------------------------------
(* Inputs of the server model *)

URLs == {<<"y","o","u","t","u",".","b","e","/","a">>, <<"V","K",".","c","o","m","/","b">>}

RawFormat(id, vcodec, acodec, height, url) ==
    [format_id |-> id, ext |-> "", vcodec |-> vcodec, acodec |-> acodec,
     height |-> height, resolution |-> None, filesize |-> 0,
     filesize_approx |-> 0, url |-> url]

EmptyInfo ==
    [id |-> "", title |-> None, description |-> None, thumbnail |-> "",
     duration |-> 0, uploader |-> None, view_count |-> 0,
     webpage_url |-> None, formats |-> <<>>, url |-> None,
     requested_formats |-> <<>>, ext |-> "", filesize |-> 0,
     filesize_approx |-> 0]

InfoA ==
    [EmptyInfo EXCEPT
        !.id = "a", !.title = Some(<<"T","e","s","t",":"," ","V","i","d","e","o","!"," ","#","1">>), !.duration = 7,
        !.formats = << RawFormat(<<"1","4","0">>, "none", "mp4a", 0, None),
                       RawFormat(<<"2","2">>, "avc1", "mp4a", 720, None),
                       RawFormat(<<"1","3","6">>, "avc1", "none", 720, None) >>,
        !.requested_formats =
                    << RawFormat(<<"1","3","6">>, "avc1", "none", 720, Some(<<"v">>)),
                       RawFormat(<<"1","4","0">>, "none", "mp4a", 0, Some(<<"a">>)) >>]

InfoB ==
    [EmptyInfo EXCEPT !.id = "b", !.url = Some(<<"u">>), !.ext = "webm"]

Infos == {InfoA, InfoB}

ServerMsgs == {<<"V","i","d","e","o"," ","u","n","a","v","a","i","l","a","b","l","e">>, <<"b","l","o","c","k","e","d"," ","i","n"," ","y","o","u","r"," ","c","o","u","n","t","r","y">>}

Outcome(kind, info, msg) == [kind |-> kind, info |-> info, msg |-> msg]

NoOutcome == Outcome("pending", EmptyInfo, <<>>)

\* what _extract_info_sync (main.py:136-139) can do: return metadata, return
\* nothing, raise yt_dlp.DownloadError or raise another exception
Outcomes ==
    {Outcome("info", i, <<>>) : i \in Infos}
        \cup {Outcome("none", EmptyInfo, <<>>)}
        \cup {Outcome("DownloadError", EmptyInfo, m) : m \in ServerMsgs}
        \cup {Outcome("Exception", EmptyInfo, <<"t","i","m","e","d"," ","o","u","t">>)}

ServerFormatIds == {None, Some(<<"4","2">>)}

ServerQualities == {Some(<<"7","2","0","p">>)}

-----------------------------------------------------------------------------
(* State of one request.  arrived is the time the request came in, kept   *)
(* for the properties; the handlers do not read it.                        *)

IdleReq ==
    [endpoint |-> "idle", pc |-> "idle", url |-> <<>>, format_id |-> None,
     quality |-> None, ydl_opts |-> get_ydl_opts("generic"),
     format_spec |-> <<>>, outcome |-> NoOutcome, chunk |-> 0, arrived |-> 0]

NoHeaders == [filename |-> <<>>, x_video_title |-> <<>>, x_video_duration |-> 0]

\* status 0: nothing sent yet.  body: "none" | "json" | "open" (a streaming
\* body in progress) | "complete" (ended by the final empty chunk) |
\* "aborted" (connection dropped without the final chunk)
NoResp ==
    [status |-> 0, detail |-> <<>>, json |-> NoBody, headers |-> NoHeaders,
     body |-> "none", chunks |-> <<>>, connected |-> TRUE]

\* process: the variable `process` of generate() is not None.
\* child: "none" | "running" | "exited".  returncode: process.returncode.
\* ended: how generate() was left, "no" | "return" | "cancel".
\* stderr: what the child has written to its error pipe and nobody has read.
\* blocked: the child is suspended in a write to its full error pipe.
NoProc ==
    [process |-> FALSE, child |-> "none", exitcode |-> 0, returncode |-> None,
     stdout |-> <<>>, produced |-> 0, killed |-> FALSE, log |-> "none",
     ended |-> "no", stderr |-> 0, blocked |-> FALSE]

Rids == DOMAIN req

Running == {r \in Rids : req[r].pc = "running"}

JsonResponse(body) == [NoResp EXCEPT !.status = 200, !.json = body, !.body = "json"]

ErrorResponse(exc) ==
    [NoResp EXCEPT !.status = exc.status, !.detail = exc.detail, !.body = "json"]

-----------------------------------------------------------------------------
(* Cache *)

\* an entry of exactly CACHE_TTL seconds still counts as valid
is_cache_valid_inclusive(cache_entry, t) ==
    t - cache_entry.timestamp <= CACHE_TTL

\* the comparison the wrong way round
is_cache_valid_inverted(cache_entry, t) ==
    t - cache_entry.timestamp > CACHE_TTL

(* main.py:65-68, with time.time() = t.  A stored entry is a non-empty     *)
(* dict, so "not cache_entry" is false for it.                             *)
is_cache_valid(cache_entry, t) == t - cache_entry.timestamp < CACHE_TTL

(* main.py:177 *)
cache_hit(cache_key, t) ==
    cache_key \in DOMAIN video_cache /\ is_cache_valid(video_cache[cache_key], t)

\* a write that leaves an entry that is already there alone (setdefault)
cache_put_if_absent(cache, cache_key, result, t) ==
    [k \in DOMAIN cache \cup {cache_key} |->
        IF k \in DOMAIN cache THEN cache[k] ELSE [data |-> result, timestamp |-> t]]

\* a write that also drops the entries that have expired
cache_put_evicting(cache, cache_key, result, t) ==
    [k \in {c \in DOMAIN cache : t - cache[c].timestamp < CACHE_TTL}
                \cup {cache_key} |->
        IF k = cache_key THEN [data |-> result, timestamp |-> t] ELSE cache[k]]

(* main.py:250-253 *)
cache_put(cache, cache_key, result, t) ==
    [k \in DOMAIN cache \cup {cache_key} |->
        IF k = cache_key THEN [data |-> result, timestamp |-> t] ELSE cache[k]]

-----------------------------------------------------------------------------
(* Worker pool, main.py:39 and loop.run_in_executor *)

Submit(r) == work_queue' = Append(work_queue, r)

\* a pool that starts a thread for every work item
WorkerStart_unbounded(r) ==
    /\ work_queue # <<>> /\ Head(work_queue) = r
    /\ work_queue' = Tail(work_queue)
    /\ req' = [req EXCEPT ![r].pc = "running"]
    /\ UNCHANGED <<now, video_cache, resp, proc, arg, res>>

\* a worker thread takes the oldest work item
WorkerStart(r) ==
    /\ work_queue # <<>> /\ Head(work_queue) = r
    /\ Cardinality(Running) < max_workers
    /\ work_queue' = Tail(work_queue)
    /\ req' = [req EXCEPT ![r].pc = "running"]
    /\ UNCHANGED <<now, video_cache, resp, proc, arg, res>>

\* _extract_info_sync returns or raises; the future is done
WorkerFinish(r, o) ==
    /\ req[r].pc = "running"
    /\ req' = [req EXCEPT ![r].pc = "resume", ![r].outcome = o]
    /\ UNCHANGED <<now, video_cache, work_queue, resp, proc, arg, res>>

Arrives(r) == req[r].pc \in {"idle", "done"}

NewReq(endpoint, url, format_id, quality, ydl_opts, format_spec) ==
    [IdleReq EXCEPT !.endpoint = endpoint, !.pc = "queued", !.url = url,
                    !.format_id = format_id, !.quality = quality,
                    !.ydl_opts = ydl_opts, !.format_spec = format_spec,
                    !.arrived = now]

-----------------------------------------------------------------------------
(* GET / and GET /health, main.py:142-169 *)

root(r) ==
    /\ Arrives(r)
    /\ req' = [req EXCEPT ![r] = [IdleReq EXCEPT !.endpoint = "root", !.pc = "done"]]
    /\ resp' = [resp EXCEPT ![r] = JsonResponse([service |-> "Video Downloader API"])]
    /\ proc' = [proc EXCEPT ![r] = NoProc]
    /\ UNCHANGED <<now, video_cache, work_queue, arg, res>>

health_check(r) ==
    /\ Arrives(r)
    /\ req' = [req EXCEPT ![r] = [IdleReq EXCEPT !.endpoint = "health", !.pc = "done"]]
    /\ resp' = [resp EXCEPT ![r] =
                    JsonResponse([status |-> "healthy", timestamp |-> now])]
    /\ proc' = [proc EXCEPT ![r] = NoProc]
    /\ UNCHANGED <<now, video_cache, work_queue, arg, res>>

-----------------------------------------------------------------------------
(* Exceptions raised inside a handler's try block *)

Exc(type, status, msg) == [type |-> type, status |-> status, msg |-> msg]

\* what the try block does with the engine's outcome before any metadata is used
RaisedBy(o) ==
    IF o.kind = "none" THEN Exc("HTTPException", 404, <<"V","i","d","e","o"," ","n","o","t"," ","f","o","u","n","d">>)
    ELSE IF o.kind = "DownloadError" THEN Exc("DownloadError", 0, o.msg)
    ELSE Exc("Exception", 0, o.msg)

\* str(e): starlette's HTTPException prints "status: detail"
StrOfExc(e) ==
    IF e.type = "HTTPException" THEN IntToStr(e.status) \o <<":"," ">> \o e.msg
    ELSE e.msg

(* main.py:257-272, the except clauses of /info *)
info_except(e) ==
    IF e.type = "DownloadError" THEN info_download_error(StrOfExc(e))
    ELSE IF e.type = "HTTPException" THEN HTTPException(e.status, e.msg)
    ELSE HTTPException(500, Take(StrOfExc(e), DetailLimit))

(* main.py:351-364, the except clauses of /download *)
download_except(e) ==
    IF e.type = "DownloadError" THEN download_download_error(StrOfExc(e))
    ELSE IF e.type = "HTTPException" THEN HTTPException(e.status, e.msg)
    ELSE HTTPException(500, Take(StrOfExc(e), DetailLimit))

(* main.py:394-395, the single except clause of /stream *)
stream_except(e) ==
    HTTPException(500, <<"F","a","i","l","e","d"," ","t","o"," ","g","e","t"," ","v","i","d","e","o"," ","i","n","f","o",":"," ">>
                            \o Take(StrOfExc(e), StreamDetailLimit))

-----------------------------------------------------------------------------
(* POST /info, main.py:172-272 *)

\* main.py:174-186: up to the await of the extraction
get_video_info(r, url) ==
    /\ Arrives(r)
    /\ proc' = [proc EXCEPT ![r] = NoProc]
    /\ LET cache_key == get_cache_key(url) IN
       IF cache_hit(cache_key, now)
       THEN /\ req' = [req EXCEPT ![r] =
                        [IdleReq EXCEPT !.endpoint = "info", !.pc = "done",
                                        !.url = url]]
            /\ resp' = [resp EXCEPT ![r] =
                        JsonResponse(video_cache[cache_key].data)]
            /\ UNCHANGED work_queue
       ELSE /\ req' = [req EXCEPT ![r] =
                        NewReq("info", url, None, None,
                               [get_ydl_opts(detect_platform(url))
                                    EXCEPT !.extract_flat = "False"],
                               <<>>)]
            /\ resp' = [resp EXCEPT ![r] = NoResp]
            /\ Submit(r)
    /\ UNCHANGED <<now, video_cache, arg, res>>

\* main.py:186-272: from the extraction's result to the response
get_video_info_resume(r) ==
    /\ req[r].endpoint = "info" /\ req[r].pc = "resume"
    /\ LET o == req[r].outcome
           url == req[r].url
           result == info_result(url, detect_platform(url), o.info)
       IN  IF o.kind = "info"
           THEN /\ video_cache' =
                        cache_put(video_cache, get_cache_key(url), result, now)
                /\ resp' = [resp EXCEPT ![r] = JsonResponse(result)]
           ELSE /\ resp' = [resp EXCEPT ![r] =
                                ErrorResponse(info_except(RaisedBy(o)))]
                /\ UNCHANGED video_cache
    /\ req' = [req EXCEPT ![r].pc = "done"]
    /\ UNCHANGED <<now, work_queue, proc, arg, res>>

-----------------------------------------------------------------------------
(* POST /download, main.py:275-364 *)

\* main.py:277-300
get_download_url(r, url, format_id, quality) ==
    /\ Arrives(r)
    /\ proc' = [proc EXCEPT ![r] = NoProc]
    /\ LET format_spec == download_format_spec(format_id, quality) IN
       req' = [req EXCEPT ![r] =
                NewReq("download", url, format_id, quality,
                       [get_ydl_opts(detect_platform(url))
                            EXCEPT !.format = Some(format_spec)],
                       format_spec)]
    /\ resp' = [resp EXCEPT ![r] = NoResp]
    /\ Submit(r)
    /\ UNCHANGED <<now, video_cache, arg, res>>

\* main.py:300-364
get_download_url_resume(r) ==
    /\ req[r].endpoint = "download" /\ req[r].pc = "resume"
    /\ LET o == req[r].outcome
           body == download_result(detect_platform(req[r].url), o.info)
       IN  resp' = [resp EXCEPT ![r] =
                IF o.kind = "info"
                THEN IF body = NoBody
                     THEN ErrorResponse(download_except(
                            Exc("HTTPException", 500, <<"C","o","u","l","d"," ","n","o","t"," ","g","e","t"," ","d","o","w","n","l","o","a","d"," ","U","R","L">>)))
                     ELSE JsonResponse(body)
                ELSE ErrorResponse(download_except(RaisedBy(o)))]
    /\ req' = [req EXCEPT ![r].pc = "done"]
    /\ UNCHANGED <<now, video_cache, work_queue, proc, arg, res>>

-----------------------------------------------------------------------------
(* POST /stream and its alias POST /proxy-download, main.py:367-482 *)

\* main.py:373-384
stream_download(r, url, format_id, quality) ==
    /\ Arrives(r)
    /\ proc' = [proc EXCEPT ![r] = NoProc]
    /\ req' = [req EXCEPT ![r] =
                NewReq("stream", url, format_id, quality,
                       get_ydl_opts(detect_platform(url)), <<>>)]
    /\ resp' = [resp EXCEPT ![r] = NoResp]
    /\ Submit(r)
    /\ UNCHANGED <<now, video_cache, arg, res>>

\* main.py:479-482
proxy_download(r, url, format_id, quality) ==
    stream_download(r, url, format_id, quality)

\* a handler that goes on to stream whatever the pre-fetch did
stream_download_resume_ignoring_failure(r) ==
    /\ req[r].endpoint = "stream" /\ req[r].pc = "resume"
    /\ req' = [req EXCEPT ![r].pc = "spawn"]
    /\ resp' = [resp EXCEPT ![r].status = 200, ![r].body = "open"]
    /\ UNCHANGED <<now, video_cache, work_queue, proc, arg, res>>

\* main.py:384-475: the handler returns the StreamingResponse (status 200 and
\* the headers are committed, generate() is about to spawn) or raises
stream_download_resume(r) ==
    /\ req[r].endpoint = "stream" /\ req[r].pc = "resume"
    /\ LET o == req[r].outcome IN
       IF o.kind = "info"
       THEN /\ req' = [req EXCEPT
                        ![r].pc = "spawn",
                        ![r].format_spec =
                            stream_format_spec(req[r].format_id, req[r].quality)]
            /\ resp' = [resp EXCEPT ![r].status = 200,
                                    ![r].headers = stream_headers(o.info),
                                    ![r].body = "open"]
       ELSE /\ req' = [req EXCEPT ![r].pc = "done"]
            /\ resp' = [resp EXCEPT ![r] =
                    [ErrorResponse(stream_except(RaisedBy(o)))
                        EXCEPT !.connected = resp[r].connected]]
    /\ UNCHANGED <<now, video_cache, work_queue, proc, arg, res>>

\* a finally block that leaves the child alone
generate_finally_no_kill(p) == p

(* main.py:459-464, the finally block of generate() *)
generate_finally(p) ==
    IF p.process /\ p.returncode = None
    THEN \* process.kill(): SIGKILL to a running child; nothing (or a swallowed
         \* ProcessLookupError) for one that has exited and is not yet reaped
         IF p.child = "running"
         THEN [p EXCEPT !.child = "exited", !.exitcode = -9, !.killed = TRUE,
                        !.blocked = FALSE]
         ELSE p
    ELSE p

\* generate() is left by `how` after logging `log` ("" logs nothing)
generate_exit(p, log, how) ==
    [generate_finally(IF log = "" THEN p ELSE [p EXCEPT !.log = log])
        EXCEPT !.ended = how]

\* generate() returns: the framework ends the body with the final empty chunk
BodyEnds(r) ==
    resp' = [resp EXCEPT ![r].body =
                IF resp[r].connected THEN "complete" ELSE "aborted"]

\* main.py:435-439: create_subprocess_exec returns the process, or raises
\* (no executable, no process slot), which the except clause logs
generate_spawn(r, ok) ==
    /\ req[r].pc = "spawn"
    /\ IF ok
       THEN /\ proc' = [proc EXCEPT ![r].process = TRUE, ![r].child = "running"]
            /\ req' = [req EXCEPT ![r].pc = "spawned"]
            /\ UNCHANGED resp
       ELSE /\ proc' = [proc EXCEPT ![r] =
                    generate_exit(proc[r], "Stream error", "return")]
            /\ req' = [req EXCEPT ![r].pc = "done"]
            /\ BodyEnds(r)
    /\ UNCHANGED <<now, video_cache, work_queue, arg, res>>

\* main.py:442-443: the loop is entered and the first read() awaited
generate_loop(r) ==
    /\ req[r].pc = "spawned"
    /\ req' = [req EXCEPT ![r].pc = "read"]
    /\ UNCHANGED <<now, video_cache, work_queue, resp, proc, arg, res>>

\* main.py:443-446: read() returns a chunk, which is yielded
generate_read(r) ==
    /\ req[r].pc = "read"
    /\ proc[r].stdout # <<>>
    /\ req' = [req EXCEPT ![r].pc = "yield", ![r].chunk = Head(proc[r].stdout)]
    /\ proc' = [proc EXCEPT ![r].stdout = Tail(proc[r].stdout)]
    /\ UNCHANGED <<now, video_cache, work_queue, resp, arg, res>>

\* main.py:443-445: read() returns b"", the child has closed its output
generate_eof(r) ==
    /\ req[r].pc = "read"
    /\ proc[r].stdout = <<>> /\ proc[r].child = "exited"
    /\ req' = [req EXCEPT ![r].pc = "wait"]
    /\ UNCHANGED <<now, video_cache, work_queue, resp, proc, arg, res>>

\* main.py:443, 457-464: read() raises; logged, finally, generate() returns
generate_read_raises(r) ==
    /\ req[r].pc = "read"
    /\ proc' = [proc EXCEPT ![r] =
                    generate_exit(proc[r], "Stream error", "return")]
    /\ req' = [req EXCEPT ![r].pc = "done"]
    /\ BodyEnds(r)
    /\ UNCHANGED <<now, video_cache, work_queue, arg, res>>

\* main.py:446: the framework sends the yielded chunk and asks for the next
generate_yield(r) ==
    /\ req[r].pc = "yield"
    /\ resp[r].connected
    /\ resp' = [resp EXCEPT ![r].chunks = Append(resp[r].chunks, req[r].chunk)]
    /\ req' = [req EXCEPT ![r].pc = "read", ![r].chunk = 0]
    /\ UNCHANGED <<now, video_cache, work_queue, proc, arg, res>>

\* main.py:449-451, 459-464: process.wait() returns; a zero status ends
\* generate(), a non-zero one goes on to read the error stream
generate_wait(r) ==
    /\ req[r].pc = "wait"
    /\ proc[r].returncode # None
    /\ IF proc[r].returncode[1] # 0
       THEN /\ req' = [req EXCEPT ![r].pc = "stderr"]
            /\ UNCHANGED <<resp, proc>>
       ELSE /\ req' = [req EXCEPT ![r].pc = "done"]
            /\ proc' = [proc EXCEPT ![r] = generate_exit(proc[r], "", "return")]
            /\ BodyEnds(r)
    /\ UNCHANGED <<now, video_cache, work_queue, arg, res>>

\* main.py:452-464: the error stream is read and logged, generate() returns
generate_stderr(r) ==
    /\ req[r].pc = "stderr"
    /\ proc' = [proc EXCEPT ![r] =
                    generate_exit([proc[r] EXCEPT !.stderr = 0],
                                  "yt-dlp error", "return")]
    /\ req' = [req EXCEPT ![r].pc = "done"]
    /\ BodyEnds(r)
    /\ UNCHANGED <<now, video_cache, work_queue, arg, res>>

\* the client goes away
disconnect(r) ==
    /\ req[r].endpoint = "stream"
    /\ req[r].pc \notin {"idle", "done"}
    /\ resp[r].connected
    /\ resp' = [resp EXCEPT ![r].connected = FALSE]
    /\ UNCHANGED <<now, video_cache, work_queue, req, proc, arg, res>>

\* the framework cancels the response of a client that went away: a
\* CancelledError at the await generate() is suspended in, or GeneratorExit at
\* its yield; neither is an Exception, so only the finally block runs
generate_cancel(r) ==
    /\ req[r].pc \in {"spawn", "read", "yield", "wait", "stderr"}
    /\ ~resp[r].connected
    /\ proc' = [proc EXCEPT ![r] = generate_exit(proc[r], "", "cancel")]
    /\ req' = [req EXCEPT ![r].pc = "done"]
    /\ resp' = [resp EXCEPT ![r].body = "aborted"]
    /\ UNCHANGED <<now, video_cache, work_queue, arg, res>>

-----------------------------------------------------------------------------
(* The child process (yt-dlp -o -) and the event loop's child watcher *)

child_write(r) ==
    /\ proc[r].child = "running" /\ ~proc[r].blocked
    /\ proc[r].produced < MaxChunks
    /\ proc' = [proc EXCEPT ![r].produced = proc[r].produced + 1,
                            ![r].stdout = Append(proc[r].stdout,
                                                 proc[r].produced + 1)]
    /\ UNCHANGED <<now, video_cache, work_queue, req, resp, arg, res>>

child_exit(r, code) ==
    /\ proc[r].child = "running" /\ ~proc[r].blocked
    /\ proc' = [proc EXCEPT ![r].child = "exited", ![r].exitcode = code]
    /\ UNCHANGED <<now, video_cache, work_queue, req, resp, arg, res>>

\* the child writes a diagnostic to its error stream (stderr=PIPE,
\* main.py:438): into the pipe while there is room, and it is suspended in
\* the write when the pipe and the reader's buffer are full.  Nothing reads
\* the error stream before the child has exited (main.py:451-452).
child_log(r) ==
    /\ proc[r].child = "running" /\ ~proc[r].blocked
    /\ proc' = [proc EXCEPT
                ![r].stderr = IF proc[r].stderr < PipeCapacity
                              THEN proc[r].stderr + 1 ELSE proc[r].stderr,
                ![r].blocked = proc[r].stderr >= PipeCapacity]
    /\ UNCHANGED <<now, video_cache, work_queue, req, resp, arg, res>>

\* the watcher collects the exit status: process.returncode is set
child_reaped(r) ==
    /\ proc[r].child = "exited"
    /\ proc[r].returncode = None
    /\ proc' = [proc EXCEPT ![r].returncode = Some(proc[r].exitcode)]
    /\ UNCHANGED <<now, video_cache, work_queue, req, resp, arg, res>>

-----------------------------------------------------------------------------
(* Time *)

TimeSteps == {CACHE_TTL - 1, CACHE_TTL}

Tick(d) ==
    /\ now + d <= MaxTime
    /\ now' = now + d
    /\ UNCHANGED <<video_cache, work_queue, req, resp, proc, arg, res>>

-----------------------------------------------------------------------------
(* The server handling one request after another, at one instant *)

NoArg == [format_id |-> None, quality |-> None, msg |-> <<>>]

NoRes == [endpoint |-> "none", value |-> <<>>]

ServerInit ==
    /\ now = 0
    /\ video_cache = <<>>
    /\ work_queue = <<>>
    /\ req = <<IdleReq>>
    /\ resp = <<NoResp>>
    /\ proc = <<NoProc>>

Init == ServerInit /\ arg = NoArg /\ res = NoRes

Next ==
    \/ \E r \in Rids : root(r)
    \/ \E r \in Rids : health_check(r)
    \/ \E r \in Rids, url \in URLs : get_video_info(r, url)
    \/ \E r \in Rids : get_video_info_resume(r)
    \/ \E r \in Rids, url \in URLs, f \in ServerFormatIds, q \in ServerQualities :
            get_download_url(r, url, f, q)
    \/ \E r \in Rids : get_download_url_resume(r)
    \/ \E r \in Rids, url \in URLs, f \in ServerFormatIds, q \in ServerQualities :
            stream_download(r, url, f, q)
    \/ \E r \in Rids, url \in URLs, f \in ServerFormatIds, q \in ServerQualities :
            proxy_download(r, url, f, q)
    \/ \E r \in Rids : stream_download_resume(r)
    \/ \E r \in Rids : WorkerStart(r)
    \/ \E r \in Rids, o \in Outcomes : WorkerFinish(r, o)
    \/ \E r \in Rids, ok \in BOOLEAN : generate_spawn(r, ok)
    \/ \E r \in Rids : generate_loop(r)
    \/ \E r \in Rids : generate_read(r)
    \/ \E r \in Rids : generate_eof(r)
    \/ \E r \in Rids : generate_read_raises(r)
    \/ \E r \in Rids : generate_yield(r)
    \/ \E r \in Rids : generate_wait(r)
    \/ \E r \in Rids : generate_stderr(r)
    \/ \E r \in Rids : disconnect(r)
    \/ \E r \in Rids : generate_cancel(r)
    \/ \E r \in Rids : child_write(r)
    \/ \E r \in Rids : child_log(r)
    \/ \E r \in Rids, code \in {0, 1} : child_exit(r, code)
    \/ \E r \in Rids : child_reaped(r)

Spec == Init /\ [][Next]_vars

-----------------------------------------------------------------------------
(* The JSON endpoints and the cache as time passes *)

NextCache ==
    \/ \E d \in TimeSteps : Tick(d)
    \/ \E r \in Rids : root(r)
    \/ \E r \in Rids : health_check(r)
    \/ \E r \in Rids, url \in URLs : get_video_info(r, url)
    \/ \E r \in Rids : get_video_info_resume(r)
    \/ \E r \in Rids, url \in URLs, f \in ServerFormatIds, q \in ServerQualities :
            get_download_url(r, url, f, q)
    \/ \E r \in Rids : get_download_url_resume(r)
    \/ \E r \in Rids : WorkerStart(r)
    \/ \E r \in Rids, o \in Outcomes : WorkerFinish(r, o)

SpecCache == Init /\ [][NextCache]_vars

-----------------------------------------------------------------------------
(* The format resolver on its own: every (format_id, quality) pair *)

FormatIds == {None, Some(<<>>), Some(<<"4","2">>), Some(<<"1","3","7","+","1","4","0">>), Some(<<"b","e","s","t">>)}

KnownQualities == {<<"b","e","s","t">>, <<"a","u","d","i","o">>} \cup Tiers

Qualities ==
    {None, Some(<<>>)} \cup {Some(q) : q \in KnownQualities}
        \cup {Some(<<"4","k">>), Some(<<"1","4","4","p">>), Some(<<"B","E","S","T">>), Some(<<"7","2","0">>), Some(<<"p">>)}

FuncResult(endpoint, value) == [endpoint |-> endpoint, value |-> value]

InitFormat ==
    /\ ServerInit
    /\ arg \in {[NoArg EXCEPT !.format_id = f, !.quality = q] :
                    f \in FormatIds, q \in Qualities}
    /\ res = NoRes

resolve_download ==
    /\ res = NoRes
    /\ res' = FuncResult("download",
                         download_format_spec(arg.format_id, arg.quality))
    /\ UNCHANGED <<arg, server_vars>>

resolve_stream ==
    /\ res = NoRes
    /\ res' = FuncResult("stream",
                         stream_format_spec(arg.format_id, arg.quality))
    /\ UNCHANGED <<arg, server_vars>>

NextFormat == resolve_download \/ resolve_stream

SpecFormat == InitFormat /\ [][NextFormat]_vars

-----------------------------------------------------------------------------
(* The error classification on its own: engine failure messages made of    *)
(* up to MaxWords words                                                    *)

PadLen == 120

Pad == [i \in 1..PadLen |-> "x"]

Words ==
    {<<"S","i","g","n"," ","i","n">>, <<"s","i","g","n"," ","i","n">>, <<"r","o","b","o","t">>, <<"B","o","t">>, <<"P","r","i","v","a","t","e">>, <<"p","r","i","v","a","t","e">>,
     <<"u","n","a","v","a","i","l","a","b","l","e">>, <<"U","n","a","v","a","i","l","a","b","l","e">>, <<"g","e","o">>, <<"C","o","u","n","t","r","y">>, <<"e","r","r","o","r">>, Pad}

RECURSIVE MessagesOf(_)
MessagesOf(n) ==
    IF n = 0 THEN {<<>>}
    ELSE LET shorter == MessagesOf(n - 1) IN
         shorter \cup Words
            \cup {m \o <<" ">> \o w : m \in shorter \ {<<>>}, w \in Words}

Messages == MessagesOf(MaxWords)

InitClassify ==
    /\ ServerInit
    /\ arg \in {[NoArg EXCEPT !.msg = m] : m \in Messages}
    /\ res = NoRes

\* /info answers an engine failure with message arg.msg
classify_info ==
    /\ res = NoRes
    /\ res' = FuncResult("info", info_except(Exc("DownloadError", 0, arg.msg)))
    /\ UNCHANGED <<arg, server_vars>>

\* /download answers an engine failure with message arg.msg
classify_download ==
    /\ res = NoRes
    /\ res' = FuncResult("download",
                         download_except(Exc("DownloadError", 0, arg.msg)))
    /\ UNCHANGED <<arg, server_vars>>

NextClassify == classify_info \/ classify_download

SpecClassify == InitClassify /\ [][NextClassify]_vars

-----------------------------------------------------------------------------
(* Properties of the streaming relay *)

\* C1: once generate() has been left, by returning or by cancellation at any
\* of its suspension points, a child it spawned is no longer running: it has
\* exited by itself or has been killed.
C1_NoLiveChildAfterRelay ==
    \A r \in Rids :
        (proc[r].ended # "no" /\ proc[r].process) => proc[r].child = "exited"

\* a client disconnect ended a relay whose child was still running
C1_Witness ==
    \E r \in Rids :
        /\ proc[r].ended = "cancel" /\ proc[r].process
        /\ proc[r].killed /\ proc[r].returncode = None

\* C3: a failure raised with an HTTP status inside a handler's try block (the
\* 404 for an engine that returns no metadata) reaches the client with that
\* status, on every handler.
C3_ClassifiedStatusUnchanged ==
    \A r \in Rids :
        (req[r].pc = "done" /\ req[r].outcome.kind = "none")
            => resp[r].status = RaisedBy(req[r].outcome).status

\* C4: a /stream body is ended as a complete body only if the child exited
\* with status 0 and every chunk it produced was delivered.
C4_CompleteOnlyOnSuccess ==
    \A r \in Rids :
        resp[r].body = "complete" =>
            /\ proc[r].process /\ proc[r].child = "exited"
            /\ proc[r].exitcode = 0
            /\ resp[r].chunks = [i \in 1..proc[r].produced |-> i]

-----------------------------------------------------------------------------
(* The states of a /stream request *)

Phase(r) ==
    LET q == req[r]
        p == proc[r]
    IN  IF q.endpoint # "stream" THEN "NotStream"
        ELSE IF q.pc \in {"queued", "running", "resume", "spawn"}
        THEN "MetadataFetching"
        ELSE IF q.pc = "spawned" THEN "ChildSpawned"
        ELSE IF q.pc \in {"read", "yield", "wait", "stderr"} THEN "Streaming"
        ELSE IF ~p.process
        THEN IF q.outcome.kind = "info" THEN "NoChild" ELSE "PrefetchFailed"
        ELSE IF p.ended = "cancel" THEN "AbortedByClient"
        ELSE IF p.log # "none" THEN "ChildFailed"
        ELSE "Completed"

\* the state a step starts from: a request that arrives in this step starts
\* in NotStarted
PhaseBefore(r) ==
    IF Arrives(r) /\ req'[r].pc = "queued" THEN "NotStarted" ELSE Phase(r)

ClaimedTransitions ==
    {<<"NotStarted", "MetadataFetching">>,
     <<"MetadataFetching", "ChildSpawned">>,
     <<"ChildSpawned", "Streaming">>,
     <<"Streaming", "Completed">>,
     <<"Streaming", "AbortedByClient">>,
     <<"Streaming", "ChildFailed">>,
     <<"MetadataFetching", "PrefetchFailed">>}

PhaseStepIn(r, transitions) ==
    req'[r].endpoint = "stream" =>
        \/ PhaseBefore(r) = Phase(r)'
        \/ <<PhaseBefore(r), Phase(r)'>> \in transitions

\* what holds of a request's child in every state
ChildDiscipline(r) ==
    \* a child is spawned only after the pre-fetch succeeded
    /\ proc[r].process => req[r].outcome.kind = "info"
    /\ proc[r].child # "none" => proc[r].process
    \* nothing is relayed before the child is spawned
    /\ resp[r].chunks # <<>> => proc[r].process
    \* a failed pre-fetch ends the request without a child
    /\ (req[r].pc = "done" /\ req[r].outcome.kind \in {"none", "DownloadError", "Exception"})
            => ~proc[r].process /\ resp[r].body = "json"
    \* a request that spawned a child ends in one of the three terminal states
    /\ (req[r].pc = "done" /\ proc[r].process) =>
            /\ Phase(r) \in {"Completed", "AbortedByClient", "ChildFailed"}
            /\ Phase(r) = "Completed" =>
                    proc[r].ended = "return" /\ proc[r].returncode = Some(0)
            /\ Phase(r) = "AbortedByClient" => ~resp[r].connected
            /\ Phase(r) = "ChildFailed" => proc[r].ended = "return"
            /\ proc[r].child = "exited"

\* C6 as claimed: every /stream request follows only the transitions
\* NotStarted -> MetadataFetching -> ChildSpawned -> Streaming ->
\* {Completed | AbortedByClient | ChildFailed}, a failed pre-fetch being the
\* only other way a request ends.
C6_OnlyClaimedTransitions ==
    [][\A r \in Rids : PhaseStepIn(r, ClaimedTransitions)]_vars

\* C6 as amended: the same transitions, and besides a failed pre-fetch a
\* request also ends without a child when the child cannot be spawned or the
\* client is gone before the spawn; a child is spawned only after a
\* successful pre-fetch, nothing is relayed before the spawn, and a request
\* that spawned a child ends in exactly one of the three terminal states.
C6_StreamStateMachine ==
    [][\A r \in Rids :
        /\ PhaseStepIn(r, ClaimedTransitions
                            \cup {<<"MetadataFetching", "NoChild">>})
        /\ ChildDiscipline(r)']_vars

\* a request went through every state and completed with all chunks sent
C6_Witness ==
    \E r \in Rids :
        /\ Phase(r) = "Completed"
        /\ resp[r].chunks = [i \in 1..MaxChunks |-> i]

-----------------------------------------------------------------------------
(* Properties of the cache *)

\* the entry for key k is younger than the time to live
Fresh(k) ==
    k \in DOMAIN video_cache /\ now - video_cache[k].timestamp < 300

\* this step is the arrival of a /info request for url
InfoLookup(r, url) ==
    /\ Arrives(r)
    /\ req'[r].endpoint = "info" /\ req'[r].url = url
    /\ <<req[r], resp[r]>> # <<req'[r], resp'[r]>>

\* this step is the write of a successful /info extraction
InfoWrite(r) ==
    /\ req[r].endpoint = "info" /\ req[r].pc = "resume"
    /\ req[r].outcome.kind = "info"
    /\ req'[r].pc = "done"

EntryOf(cache, k) == IF k \in DOMAIN cache THEN <<cache[k]>> ELSE <<>>

\* C2: a write stores the value with the time of the write, nothing else
\* changes an entry, and a lookup at time t' of an entry written at t
\* answers with the written value if and only if t' - t < 300; at 300
\* seconds and beyond the entry counts as absent and the engine is asked.
C2_CacheFreshness ==
    [][\A r \in Rids :
        /\ InfoWrite(r) =>
                video_cache'[get_cache_key(req[r].url)] =
                    [data |-> resp'[r].json, timestamp |-> now]
        /\ \A url \in URLs :
            LET k == get_cache_key(url) IN
            /\ EntryOf(video_cache', k) # EntryOf(video_cache, k) =>
                    \E w \in Rids : InfoWrite(w) /\ req[w].url = url
            /\ InfoLookup(r, url) =>
                    IF Fresh(k)
                    THEN /\ req'[r].pc = "done" /\ resp'[r].status = 200
                         /\ resp'[r].json = video_cache[k].data
                    ELSE /\ req'[r].pc = "queued" /\ resp'[r].status = 0
       ]_vars

\* a request was answered from an entry that was written after the first
\* time to live had passed
C2_Witness ==
    \E r \in Rids :
        /\ req[r].endpoint = "info" /\ req[r].pc = "done"
        /\ req[r].outcome.kind = "pending"
        /\ get_cache_key(req[r].url) \in DOMAIN video_cache
        /\ video_cache[get_cache_key(req[r].url)].timestamp >= CACHE_TTL
        /\ resp[r].json = video_cache[get_cache_key(req[r].url)].data
        /\ now - video_cache[get_cache_key(req[r].url)].timestamp = CACHE_TTL - 1

\* a work item of the pool (queued or being run)
InPool(r) == req[r].pc \in {"queued", "running"}

\* C5: a /info request that finds a fresh entry is answered with the stored
\* payload without entering the worker pool, and a /info request enters the
\* pool (the engine is invoked) only when the entry is missing or expired.
C5_FreshHitBypassesEngine ==
    [][\A r \in Rids, url \in URLs :
        LET k == get_cache_key(url) IN
        /\ (InfoLookup(r, url) /\ Fresh(k)) =>
                /\ resp'[r].json = video_cache[k].data
                /\ ~InPool(r)'
                /\ work_queue' = work_queue
                /\ Running' = Running
        /\ (~InPool(r) /\ InPool(r)'
                /\ req'[r].endpoint = "info" /\ req'[r].url = url) => ~Fresh(k)
       ]_vars

\* a request was answered from the cache, the engine idle
C5_Witness ==
    \E r \in Rids :
        /\ req[r].endpoint = "info" /\ req[r].pc = "done"
        /\ req[r].outcome.kind = "pending"
        /\ resp[r].status = 200
        /\ resp[r].json = video_cache[get_cache_key(req[r].url)].data
        /\ now > 0

-----------------------------------------------------------------------------
(* Properties of the error classification *)

HasSignIn(msg) == Contains(<<"S","i","g","n"," ","i","n">>, msg)

HasBot(msg) == Contains(<<"b","o","t">>, Lower(msg))

HasPrivate(msg) == Contains(<<"P","r","i","v","a","t","e">>, msg)

HasUnavailable(msg) == Contains(<<"u","n","a","v","a","i","l","a","b","l","e">>, Lower(msg))

HasGeo(msg) == Contains(<<"g","e","o">>, Lower(msg)) \/ Contains(<<"c","o","u","n","t","r","y">>, Lower(msg))

KnownPattern(msg) ==
    HasSignIn(msg) \/ HasBot(msg) \/ HasPrivate(msg) \/ HasUnavailable(msg)
        \/ HasGeo(msg)

\* the first 200 characters of msg
First200(msg) == [i \in 1..(IF Len(msg) < 200 THEN Len(msg) ELSE 200) |-> msg[i]]

DetailPrefix(endpoint) ==
    IF endpoint = "info" THEN <<"E","x","t","r","a","c","t","i","o","n"," ","e","r","r","o","r",":"," ">> ELSE <<"E","r","r","o","r",":"," ">>

Classified == res.endpoint \in {"info", "download"}

\* an unmatched message is answered 500 with a detail that carries at most
\* the first 200 characters of the message after the endpoint's prefix
UnmatchedIs500 ==
    ~KnownPattern(arg.msg) =>
        /\ res.value.status = 500
        /\ res.value.detail = DetailPrefix(res.endpoint) \o First200(arg.msg)

\* C7 as claimed: a message containing "Sign in" is answered 403, one
\* containing "unavailable" in any letter case 404, an unmatched one 500
\* with at most 200 characters of diagnostic.
C7_ClassificationAsClaimed ==
    Classified =>
        /\ HasSignIn(arg.msg) => res.value.status = 403
        /\ HasUnavailable(arg.msg) => res.value.status = 404
        /\ UnmatchedIs500

\* C7 as amended: "unavailable" is answered 404 only when no earlier rule
\* ("Sign in", "bot" in any case, "Private") matches the message.
C7_Classification ==
    Classified =>
        /\ HasSignIn(arg.msg) => res.value.status = 403
        /\ (HasUnavailable(arg.msg) /\ ~HasSignIn(arg.msg) /\ ~HasBot(arg.msg)
                /\ ~HasPrivate(arg.msg)) => res.value.status = 404
        /\ UnmatchedIs500

\* /info answered 404 to a message that has "Unavailable" with a capital
C7_Witness ==
    /\ res.endpoint = "info"
    /\ Contains(<<"U","n","a","v","a","i","l","a","b","l","e">>, arg.msg) /\ ~Contains(<<"u","n","a","v","a","i","l","a","b","l","e">>, arg.msg)
    /\ res.value.status = 404

\* C8: /download answers every engine failure message with the status /info
\* answers it with; a geo-restriction message is answered 403 on both.
C8_SameStatusOnBothEndpoints ==
    res.endpoint = "download" =>
        /\ res.value.status = info_except(Exc("DownloadError", 0, arg.msg)).status
        /\ (HasGeo(arg.msg) /\ ~HasSignIn(arg.msg) /\ ~HasBot(arg.msg)
                /\ ~HasPrivate(arg.msg) /\ ~HasUnavailable(arg.msg))
                    => res.value.status = 403

-----------------------------------------------------------------------------
(* Properties of the format resolver *)

Resolved == res.endpoint \in {"download", "stream"}

\* the expression the endpoint builds for quality "best" and no format id
BestSpec(endpoint) ==
    IF endpoint = "download" THEN download_format_spec(None, Some(<<"b","e","s","t">>))
    ELSE stream_format_spec(None, Some(<<"b","e","s","t">>))

\* null, the empty string or a string that is not an accepted value
Unrecognized(quality) == quality = None \/ quality[1] \notin KnownQualities

\* C9 as claimed: without a format_id, an unrecognized, empty or null quality
\* gives the expression that quality "best" gives, on /download and /stream.
C9_UnrecognizedIsBest ==
    (Resolved /\ arg.format_id = None /\ Unrecognized(arg.quality))
        => res.value = BestSpec(res.endpoint)

\* C9 as amended: that holds on /stream, and on /download for a null or
\* empty quality; for any other unrecognized string /download builds the
\* single link "best", the first link of the chain built for "best".
C9_UnrecognizedQuality ==
    (Resolved /\ arg.format_id = None /\ Unrecognized(arg.quality)) =>
        IF res.endpoint = "stream" \/ ~Truthy(arg.quality)
        THEN res.value = BestSpec(res.endpoint)
        ELSE /\ res.value = <<"b","e","s","t">>
             /\ res.value = Take(BestSpec("download"), Len(res.value))
             /\ BestSpec("download")[Len(res.value) + 1] = "/"

\* /download resolved the unrecognized quality "4k"
C9_Witness ==
    /\ res.endpoint = "download"
    /\ arg.format_id = None /\ arg.quality = Some(<<"4","k">>)
    /\ res.value = <<"b","e","s","t">>

\* C10 as claimed: a format_id that is any string is handed on verbatim as
\* the whole expression, whatever the quality.
C10_FormatIdVerbatim ==
    (Resolved /\ arg.format_id # None) => res.value = arg.format_id[1]

\* C10 as amended: a non-empty format_id is handed on verbatim as the whole
\* expression, whatever the quality; an empty one counts as absent and the
\* quality decides.
C10_NonEmptyFormatIdVerbatim ==
    /\ (Resolved /\ arg.format_id # None /\ arg.format_id # Some(<<>>))
            => res.value = arg.format_id[1]
    /\ (Resolved /\ arg.format_id = Some(<<>>)) =>
            res.value = (IF res.endpoint = "download"
                         THEN download_format_spec(None, arg.quality)
                         ELSE stream_format_spec(None, arg.quality))

\* /download handed on format id 42 although the quality was "audio"
C10_Witness ==
    /\ res.endpoint = "download"
    /\ arg.format_id = Some(<<"4","2">>) /\ arg.quality = Some(<<"a","u","d","i","o">>)
    /\ res.value = <<"4","2">>


-----------------------------------------------------------------------------
(* The derivation of the download URL on its own: metadata with a URL at   *)
(* the top level, in its format list and in its requested formats          *)

MaxFormatEntries == 2

MaxRequested == 2

SeqsUpTo(S, n) == UNION {[1..k -> S] : k \in 0..n}

TopUrls == {None, Some(<<>>), Some(<<"u">>)}

UrlFormats == {RawFormat(<<"1","8">>, "avc1", "mp4a", 360, u) : u \in {None, Some(<<"f">>)}}

RequestedFormats ==
    {RawFormat(<<"r">>, v, a, 0, u) :
        v \in {"avc1", "none"}, a \in {"mp4a", "none"},
        u \in {None, Some(<<"v">>), Some(<<"a">>)}}

ResolveInfos ==
    {[EmptyInfo EXCEPT !.url = t, !.formats = fs, !.requested_formats = rs] :
        t \in TopUrls, fs \in SeqsUpTo(UrlFormats, MaxFormatEntries),
        rs \in SeqsUpTo(RequestedFormats, MaxRequested)}

InitResolve ==
    /\ ServerInit
    /\ arg \in {[info |-> i] : i \in ResolveInfos}
    /\ res = NoRes

\* /download answers the metadata arg.info (main.py:302-349, 361-362)
derive_download_url ==
    /\ res = NoRes
    /\ LET body == download_result("generic", arg.info) IN
       res' = FuncResult("resolve",
                IF body = NoBody
                THEN ErrorResponse(download_except(
                        Exc("HTTPException", 500, <<"C","o","u","l","d"," ","n","o","t"," ","g","e","t"," ","d","o","w","n","l","o","a","d"," ","U","R","L">>)))
                ELSE JsonResponse(body))
    /\ UNCHANGED <<arg, server_vars>>

NextResolve == derive_download_url

SpecResolve == InitResolve /\ [][NextResolve]_vars

-----------------------------------------------------------------------------
(* Properties of the download URL *)

UrlResolved == res.endpoint = "resolve"

\* the metadata carries a non-empty URL somewhere
CarriesUrl(info) ==
    \/ Truthy(info.url)
    \/ \E i \in DOMAIN info.formats : Truthy(info.formats[i].url)
    \/ \E i \in DOMAIN info.requested_formats :
            Truthy(info.requested_formats[i].url)

\* the places the handler looks at: the top level, the last entry of the
\* format list, the last requested format that carries video
LooksAtUrl(info) ==
    LET fs == info.formats
        rs == info.requested_formats
        vids == {i \in DOMAIN rs : rs[i].vcodec # "none"}
    IN  \/ Truthy(info.url)
        \/ fs # <<>> /\ Truthy(fs[Len(fs)].url)
        \/ vids # {} /\ Truthy(rs[CHOOSE i \in vids : \A j \in vids : j <= i].url)

ResolutionFailure ==
    /\ res.value.status = 500
    /\ res.value.detail = <<"C","o","u","l","d"," ","n","o","t"," ","g","e","t"," ","d","o","w","n","l","o","a","d"," ","U","R","L">>

ResolutionSuccess ==
    /\ res.value.status = 200 /\ res.value.json.success
    /\ Truthy(res.value.json.download_url)

MergeOnlyWithOtherAudio ==
    res.value.status = 200 =>
        (res.value.json.needs_merge =>
            /\ res.value.json.audio_url # None
            /\ res.value.json.audio_url # res.value.json.download_url)

\* C11 as claimed: /download answers 500 "Could not get download URL" exactly
\* when the metadata carries no URL at the top level, in any entry of its
\* format list or in any of its requested formats, and otherwise a success
\* body with a non-empty download_url; needs_merge is true only when
\* audio_url is present and differs from download_url.
C11_FailureOnlyWithoutAnyUrl ==
    UrlResolved =>
        /\ ResolutionFailure <=> ~CarriesUrl(arg.info)
        /\ CarriesUrl(arg.info) => ResolutionSuccess
        /\ MergeOnlyWithOtherAudio

\* C11 as amended: the URL is looked for at the top level, in the last entry
\* of the format list and in the last requested format that carries video;
\* /download answers 500 exactly when none of the three has a non-empty URL.
C11_FailureWithoutDerivableUrl ==
    UrlResolved =>
        /\ ResolutionFailure <=> ~LooksAtUrl(arg.info)
        /\ LooksAtUrl(arg.info) => ResolutionSuccess
        /\ MergeOnlyWithOtherAudio

\* the URL came from the requested formats and the two must be merged
C11_Witness ==
    /\ UrlResolved
    /\ res.value.status = 200
    /\ res.value.json.needs_merge
    /\ res.value.json.download_url = Some(<<"v">>)
    /\ res.value.json.audio_url = Some(<<"a">>)

-----------------------------------------------------------------------------
(* Properties of the fallback chains *)

\* the links of a format expression: its parts between "/"
RECURSIVE Links(_)
Links(expr) ==
    IF \A i \in DOMAIN expr : expr[i] # "/" THEN <<expr>>
    ELSE LET k == CHOOSE i \in DOMAIN expr :
                    expr[i] = "/" /\ \A j \in 1..(i - 1) : expr[j] # "/"
         IN  <<SubSeq(expr, 1, k - 1)>> \o Links(SubSeq(expr, k + 1, Len(expr)))

\* the numeric height of a tier
TierHeight(quality) ==
    IF quality = <<"1","0","8","0","p">> THEN 1080
    ELSE IF quality = <<"7","2","0","p">> THEN 720
    ELSE IF quality = <<"4","8","0","p">> THEN 480
    ELSE 360

\* "[height<=H]"
HeightCap(H) == <<"[","h","e","i","g","h","t","<","=">> \o IntToStr(H) \o <<"]">>

\* C12: without a format_id, /download builds for a tier of height H the
\* three links (1) separate video capped at H plus best audio, (2) a single
\* stream capped at H, (3) unconstrained best, in this order; for "audio"
\* best audio-only then best overall; for "best" the single best stream then
\* best video plus best audio.
C12_DownloadChains ==
    (res.endpoint = "download" /\ arg.format_id = None /\ arg.quality # None) =>
        LET quality == arg.quality[1]
            links == Links(res.value)
        IN  /\ quality \in Tiers =>
                links = << <<"b","e","s","t","v","i","d","e","o">> \o HeightCap(TierHeight(quality))
                                \o <<"+","b","e","s","t","a","u","d","i","o">>,
                           <<"b","e","s","t">> \o HeightCap(TierHeight(quality)),
                           <<"b","e","s","t">> >>
            /\ quality = <<"a","u","d","i","o">> => links = << <<"b","e","s","t","a","u","d","i","o">>, <<"b","e","s","t">> >>
            /\ quality = <<"b","e","s","t">> => links = << <<"b","e","s","t">>, <<"b","e","s","t","v","i","d","e","o","+","b","e","s","t","a","u","d","i","o">> >>

\* /download built the chain of the 480p tier
C12_Witness ==
    /\ res.endpoint = "download"
    /\ arg.format_id = None /\ arg.quality = Some(<<"4","8","0","p">>)
    /\ res.value = <<"b","e","s","t","v","i","d","e","o","[","h","e","i","g","h","t","<","=","4","8","0","]","+","b","e","s","t","a","u","d","i","o","/","b","e","s","t","[","h","e","i","g","h","t","<","=","4","8","0","]","/","b","e","s","t">>

\* C19: on /stream without a format_id, whatever the quality, no link of the
\* chain asks for two streams to be merged (none has a "+") and the last
\* link is the unconstrained "best".
C19_StreamChainsNeedNoMerge ==
    (res.endpoint = "stream" /\ ~Truthy(arg.format_id)) =>
        LET links == Links(res.value) IN
        /\ \A i \in DOMAIN links : ~Contains(<<"+">>, links[i])
        /\ links[Len(links)] = <<"b","e","s","t">>

\* /stream built a three-link chain for an empty format_id and a tier
C19_Witness ==
    /\ res.endpoint = "stream"
    /\ arg.format_id = Some(<<>>) /\ arg.quality = Some(<<"1","0","8","0","p">>)
    /\ Len(Links(res.value)) = 3

-----------------------------------------------------------------------------
(* The display list of /info on its own: raw format lists of the engine    *)

MaxRaw == 3

\* (vcodec, acodec, height) of a raw format: audio-only, with and without a
\* vcodec key and a height; neither codec; video with and without audio,
\* with and without a height
RawShapes ==
    {<<"none", "mp4a", 0>>, <<"none", "mp4a", 720>>, <<"missing", "mp4a", 0>>,
     <<"none", "none", 360>>, <<"avc1", "mp4a", 720>>, <<"avc1", "none", 720>>,
     <<"vp9", "none", 360>>, <<"avc1", "mp4a", 0>>}

\* video-only formats of increasing heights 100, 200, ...
Ladder(n) == [i \in 1..n |-> <<"avc1", "none", 100 * i>>]

\* the raw formats of a list of shapes; the format id is the position
RawList(shapes) ==
    [i \in DOMAIN shapes |->
        RawFormat(IntToStr(i), shapes[i][1], shapes[i][2], shapes[i][3], None)]

RawLists ==
    {RawList(s \o Ladder(n)) :
        s \in SeqsUpTo(RawShapes, MaxRaw), n \in {0, MaxFormats + 1}}

InitFormats ==
    /\ ServerInit
    /\ arg \in {[formats |-> raw] : raw \in RawLists}
    /\ res = NoRes

\* /info builds its result from metadata whose format list is arg.formats
\* (main.py:191-248)
build_formats ==
    /\ res = NoRes
    /\ res' = FuncResult("formats",
                info_result(<<"y","o","u","t","u",".","b","e","/","a">>, "youtube",
                            [EmptyInfo EXCEPT !.formats = arg.formats]).data.formats)
    /\ UNCHANGED <<arg, server_vars>>

NextFormats == build_formats

SpecFormats == InitFormats /\ [][NextFormats]_vars

-----------------------------------------------------------------------------
(* Properties of the display list *)

\* the position in the raw list of a display entry
RawIndex(entry) == CHOOSE i \in DOMAIN arg.formats : IntToStr(i) = entry.format_id

\* the label and the height the raw format at position i is displayed with
\* (<<>> when it is not displayed at all)
Displayed(i) == format_entry(arg.formats[i])

\* position i comes before position j in the height-descending stable order
ComesBefore(i, j) ==
    \/ Displayed(i)[1].height > Displayed(j)[1].height
    \/ Displayed(i)[1].height = Displayed(j)[1].height /\ i <= j

\* C13: in the format list of the /info result the quality labels are
\* pairwise distinct, the heights non-increasing, there are at most 10
\* entries, an entry of height 0 is labelled "audio", and the entry retained
\* for a label is the first one with that label in the height-descending
\* stable order of the raw list.
C13_DisplayList ==
    res.endpoint = "formats" =>
        LET out == res.value IN
        /\ \A i, j \in DOMAIN out : out[i].quality = out[j].quality => i = j
        /\ \A i, j \in DOMAIN out : i < j => out[i].height >= out[j].height
        /\ Len(out) <= 10
        /\ \A i \in DOMAIN out : out[i].height = 0 => out[i].quality = <<"a","u","d","i","o">>
        /\ \A i \in DOMAIN out :
                /\ Displayed(RawIndex(out[i])) = <<out[i]>>
                /\ \A j \in DOMAIN arg.formats :
                    (Displayed(j) # <<>>
                        /\ Displayed(j)[1].quality = out[i].quality)
                            => ComesBefore(RawIndex(out[i]), j)

\* two raw formats are labelled 720p and the list was cut at 10 entries
C13_Witness ==
    /\ res.endpoint = "formats"
    /\ Len(res.value) = 10
    /\ Len(arg.formats) > 12
    /\ \E i, j \in DOMAIN arg.formats :
            /\ i < j
            /\ Displayed(i) # <<>> /\ Displayed(j) # <<>>
            /\ Displayed(i)[1].quality = <<"7","2","0","p">>
            /\ Displayed(j)[1].quality = <<"7","2","0","p">>

-----------------------------------------------------------------------------
(* The platform classifier on its own: urls made of up to MaxParts pieces  *)

MaxParts == 2

UrlParts ==
    {<<"y","o","u","t","u","b","e",".","c","o","m">>, <<"Y","o","u","T","u","b","e",".","C","O","M">>, <<"y","o","u","t","u",".","b","e">>, <<"v","k",".","c","o","m">>, <<"V","K",".","r","u">>,
     <<"v","k","v","i","d","e","o",".","r","u">>, <<"t","i","k","t","o","k",".","c","o","m">>, <<"r","u","t","u","b","e",".","r","u">>, <<"o","k",".","r","u">>, <<"O","K",".","R","U">>,
     <<"d","z","e","n",".","r","u">>, <<"e","x","a","m","p","l","e",".","o","r","g">>, <<"t","i","k","t","o","k",".","r","u">>, <<"v","k",".","c","o">>, <<"/","w","a","t","c","h">>,
     <<"v","k",".","c","o","m","/","a","w","a","y","?","t","o","=">>}

RECURSIVE Concat(_)
Concat(parts) == IF parts = <<>> THEN <<>> ELSE Head(parts) \o Concat(Tail(parts))

UrlStrings == {Concat(parts) : parts \in SeqsUpTo(UrlParts, MaxParts)}

InitPlatform ==
    /\ ServerInit
    /\ arg \in {[url |-> u] : u \in UrlStrings}
    /\ res = NoRes

\* a handler classifies the url of its request (main.py:174, 281, 377)
classify_url ==
    /\ res = NoRes
    /\ res' = FuncResult("platform", detect_platform(arg.url))
    /\ UNCHANGED <<arg, server_vars>>

NextPlatform == classify_url

SpecPlatform == InitPlatform /\ [][NextPlatform]_vars

-----------------------------------------------------------------------------
(* Properties of the platform classifier *)

\* the rules as a table, in the order they are checked
RuleTable ==
    << [tag |-> "youtube", domains |-> {<<"y","o","u","t","u","b","e",".","c","o","m">>, <<"y","o","u","t","u",".","b","e">>}],
       [tag |-> "vk", domains |-> {<<"v","k",".","c","o","m">>, <<"v","k",".","r","u">>, <<"v","k","v","i","d","e","o",".","r","u">>}],
       [tag |-> "tiktok", domains |-> {<<"t","i","k","t","o","k",".","c","o","m">>}],
       [tag |-> "rutube", domains |-> {<<"r","u","t","u","b","e",".","r","u">>}],
       [tag |-> "ok", domains |-> {<<"o","k",".","r","u">>}],
       [tag |-> "dzen", domains |-> {<<"d","z","e","n",".","r","u">>}] >>

PlatformTags ==
    {"youtube", "vk", "tiktok", "rutube", "ok", "dzen", "instagram", "twitter",
     "generic"}

\* the rules one of whose domain substrings occurs in s
MatchingRules(s) ==
    {i \in DOMAIN RuleTable : \E d \in RuleTable[i].domains : Contains(d, s)}

\* the tag of the first matching rule, generic when there is none
FirstMatch(s) ==
    LET hits == MatchingRules(s) IN
    IF hits = {} THEN "generic"
    ELSE RuleTable[CHOOSE i \in hits : \A j \in hits : i <= j].tag

\* s with every letter in upper case
Upper(s) ==
    [i \in DOMAIN s |->
        IF s[i] \in Range(LowerAlpha)
        THEN UpperAlpha[CHOOSE k \in DOMAIN LowerAlpha : LowerAlpha[k] = s[i]]
        ELSE s[i]]

PlatformClassified == res.endpoint = "platform"

\* C14: the classifier returns exactly one tag of the closed enumeration,
\* the tag of the first rule (youtube, vk, tiktok, rutube, ok, dzen) one of
\* whose domain substrings occurs in the url whatever the letter case, or
\* generic when no rule matches.
C14_FirstMatchingRule ==
    PlatformClassified =>
        /\ res.value \in PlatformTags
        /\ res.value = FirstMatch(Lower(arg.url))
        /\ res.value = FirstMatch(Lower(Upper(arg.url)))

\* a url in mixed case was given the tag of vk
C14_Witness ==
    /\ PlatformClassified
    /\ arg.url = <<"V","K",".","r","u","/","w","a","t","c","h">>
    /\ res.value = "vk"

\* C20 as claimed: the domain substrings of at most one rule occur in a url,
\* so the tag does not depend on the order of the rules.
C20_AtMostOneRuleMatches ==
    PlatformClassified => Cardinality(MatchingRules(Lower(arg.url))) <= 1

\* C20 as amended: a url that is the domain substring of one rule matches no
\* other rule; a url in which the substrings of one rule only occur gets
\* the tag of that rule, and one in which those of several rules occur gets
\* the tag of the first of them in the order of the checks.
C20_OrderDecidesOverlaps ==
    PlatformClassified =>
        LET hits == MatchingRules(Lower(arg.url)) IN
        /\ (\E i \in DOMAIN RuleTable : Lower(arg.url) \in RuleTable[i].domains)
                => Cardinality(hits) = 1
        /\ \A i \in hits : hits = {i} => res.value = RuleTable[i].tag
        /\ \A i \in hits : (\A j \in hits : i <= j) => res.value = RuleTable[i].tag

\* the substrings of two rules occur in the url and the earlier rule decided
C20_Witness ==
    /\ PlatformClassified
    /\ arg.url = <<"v","k",".","c","o","m","/","a","w","a","y","?","t","o","=","y","o","u","t","u","b","e",".","c","o","m">>
    /\ res.value = "youtube"

-----------------------------------------------------------------------------
(* Concurrent /info requests: MaxClients requests in flight at once        *)

MaxClients == 2

\* the requests ask for the same url
SharedUrls == {<<"y","o","u","t","u",".","b","e","/","a">>}

\* what the engine does for the concurrent requests
ConcurrentOutcomes ==
    {Outcome("info", i, <<>>) : i \in Infos}
        \cup {Outcome("DownloadError", EmptyInfo, <<"V","i","d","e","o"," ","u","n","a","v","a","i","l","a","b","l","e">>)}

InitConcurrent ==
    /\ now = 0
    /\ video_cache = <<>>
    /\ work_queue = <<>>
    /\ req = [r \in 1..MaxClients |-> IdleReq]
    /\ resp = [r \in 1..MaxClients |-> NoResp]
    /\ proc = [r \in 1..MaxClients |-> NoProc]
    /\ arg = NoArg /\ res = NoRes

NextConcurrent ==
    \/ \E d \in TimeSteps : Tick(d)
    \/ \E r \in Rids, url \in SharedUrls : get_video_info(r, url)
    \/ \E r \in Rids : get_video_info_resume(r)
    \/ \E r \in Rids : WorkerStart(r)
    \/ \E r \in Rids, o \in ConcurrentOutcomes : WorkerFinish(r, o)

SpecConcurrent == InitConcurrent /\ [][NextConcurrent]_vars

-----------------------------------------------------------------------------
(* Properties of concurrent writes *)

\* C15 as claimed: at the moment a request writes the entry for key k the
\* cache holds no entry for k younger than 300 seconds.
C15_FreshEntryNeverOverwritten ==
    [][\A r \in Rids :
        InfoWrite(r) => ~Fresh(get_cache_key(req[r].url))]_vars

\* C15 as amended: a request starts an extraction only when its lookup finds
\* no fresh entry, and its write is unconditional; a fresh entry that a write
\* replaces was stored after the writing request had made its lookup, by a
\* request that overlapped with it.
C15_OnlyOverlappingWritesReplaceFresh ==
    [][\A r \in Rids :
        LET k == get_cache_key(req'[r].url) IN
        /\ (InfoLookup(r, req'[r].url) /\ InPool(r)') => ~Fresh(k)
        /\ InfoWrite(r) =>
            /\ video_cache'[k] = [data |-> resp'[r].json, timestamp |-> now]
            /\ Fresh(k) => video_cache[k].timestamp >= req[r].arrived
       ]_vars

\* two requests for the same url overlapped and both wrote: the entry holds
\* what the later one stored, inside the time to live of the earlier write
C15_Witness ==
    \E r1, r2 \in Rids :
        /\ r1 # r2
        /\ req[r1].endpoint = "info" /\ req[r2].endpoint = "info"
        /\ req[r1].url = req[r2].url
        /\ req[r1].pc = "done" /\ req[r2].pc = "done"
        /\ req[r1].outcome.kind = "info" /\ req[r2].outcome.kind = "info"
        /\ req[r1].arrived = req[r2].arrived
        /\ now - req[r1].arrived < CACHE_TTL
        /\ resp[r1].json # resp[r2].json
        /\ video_cache[get_cache_key(req[r2].url)].data = resp[r2].json

-----------------------------------------------------------------------------
(* Every endpoint and the cache as time passes, one request at a time *)

\* the time to live passes
ExpirySteps == {CACHE_TTL}

NextFrame ==
    \/ \E d \in ExpirySteps : Tick(d)
    \/ \E r \in Rids : root(r)
    \/ \E r \in Rids : health_check(r)
    \/ \E r \in Rids, url \in URLs : get_video_info(r, url)
    \/ \E r \in Rids : get_video_info_resume(r)
    \/ \E r \in Rids, url \in SharedUrls, q \in ServerQualities :
            get_download_url(r, url, None, q)
    \/ \E r \in Rids : get_download_url_resume(r)
    \/ \E r \in Rids, url \in SharedUrls, q \in ServerQualities :
            stream_download(r, url, None, q)
    \/ \E r \in Rids, url \in SharedUrls, q \in ServerQualities :
            proxy_download(r, url, None, q)
    \/ \E r \in Rids : stream_download_resume(r)
    \/ \E r \in Rids : WorkerStart(r)
    \/ \E r \in Rids, o \in ConcurrentOutcomes : WorkerFinish(r, o)
    \/ \E r \in Rids, ok \in BOOLEAN : generate_spawn(r, ok)
    \/ \E r \in Rids : generate_loop(r)
    \/ \E r \in Rids : generate_read(r)
    \/ \E r \in Rids : generate_eof(r)
    \/ \E r \in Rids : generate_read_raises(r)
    \/ \E r \in Rids : generate_yield(r)
    \/ \E r \in Rids : generate_wait(r)
    \/ \E r \in Rids : generate_stderr(r)
    \/ \E r \in Rids : disconnect(r)
    \/ \E r \in Rids : generate_cancel(r)
    \/ \E r \in Rids : child_write(r)
    \/ \E r \in Rids : child_log(r)
    \/ \E r \in Rids, code \in {0, 1} : child_exit(r, code)
    \/ \E r \in Rids : child_reaped(r)

SpecFrame == Init /\ [][NextFrame]_vars

-----------------------------------------------------------------------------
(* What changes the cache *)

\* the entry for key k is the same before and after the step
EntryUnchanged(k) == EntryOf(video_cache', k) = EntryOf(video_cache, k)

\* C18: the cache changes only in the step in which a /info extraction
\* succeeds, and then only the entry of that request's own key is replaced,
\* payload and timestamp together; every other step (a lookup, a failed
\* /info, /download, /stream, /proxy-download, /health, /, the passing of
\* time) leaves every entry as it is, and no entry is ever removed.
C18_OnlyInfoSuccessWrites ==
    [][/\ \A k \in DOMAIN video_cache : k \in DOMAIN video_cache'
       /\ \A r \in Rids :
            LET own == get_cache_key(req[r].url) IN
            IF InfoWrite(r)
            THEN /\ video_cache'[own] = [data |-> resp'[r].json, timestamp |-> now]
                 /\ \A k \in DOMAIN video_cache' : k # own => EntryUnchanged(k)
            ELSE (\A w \in Rids : ~InfoWrite(w)) => video_cache' = video_cache
      ]_vars

\* a stream ran to its end while the cache held an entry that had expired
\* and one that had not
C18_Witness ==
    /\ \E r \in Rids :
            /\ req[r].endpoint = "stream" /\ req[r].pc = "done"
            /\ resp[r].body = "complete"
    /\ \E k \in DOMAIN video_cache : now - video_cache[k].timestamp >= CACHE_TTL
    /\ \E k \in DOMAIN video_cache : now - video_cache[k].timestamp < CACHE_TTL

-----------------------------------------------------------------------------
(* The worker pool under load: enough clients to fill the pool, to queue   *)
(* one request behind it and to ask for something else meanwhile.  The     *)
(* first client asks for /info, the next two for /download, the next two   *)
(* for /stream and /proxy-download, the last one for /, /health or /info.  *)

PoolClients == 1..(max_workers + 2)

InfoClients == {1, max_workers + 2}

DownloadClients == {2, 3}

StreamClients == {4, 5}

LightClients == {max_workers + 2}

\* the engine finds the video for /info and nothing for the other endpoints
PoolOutcomes(endpoint) ==
    IF endpoint = "info" THEN {Outcome("info", InfoB, <<>>)}
    ELSE {Outcome("none", EmptyInfo, <<>>)}

InitPool ==
    /\ now = 0
    /\ video_cache = <<>>
    /\ work_queue = <<>>
    /\ req = [r \in PoolClients |-> IdleReq]
    /\ resp = [r \in PoolClients |-> NoResp]
    /\ proc = [r \in PoolClients |-> NoProc]
    /\ arg = NoArg /\ res = NoRes

NextPool ==
    \/ \E r \in LightClients : root(r)
    \/ \E r \in LightClients : health_check(r)
    \/ \E r \in InfoClients, url \in SharedUrls : get_video_info(r, url)
    \/ \E r \in Rids : get_video_info_resume(r)
    \/ \E r \in DownloadClients, url \in SharedUrls, q \in ServerQualities :
            get_download_url(r, url, None, q)
    \/ \E r \in Rids : get_download_url_resume(r)
    \/ \E r \in StreamClients, url \in SharedUrls, q \in ServerQualities :
            stream_download(r, url, None, q)
    \/ \E r \in StreamClients, url \in SharedUrls, q \in ServerQualities :
            proxy_download(r, url, None, q)
    \/ \E r \in Rids : stream_download_resume(r)
    \/ \E r \in Rids : WorkerStart(r)
    \/ \E r \in Rids : \E o \in PoolOutcomes(req[r].endpoint) : WorkerFinish(r, o)

SpecPool == InitPool /\ [][NextPool]_vars

-----------------------------------------------------------------------------
(* Properties of the worker pool *)

\* the positions of r in the pool's queue
QueuePositions(r) == {i \in DOMAIN work_queue : work_queue[i] = r}

\* at most 4 extractions run, whatever the endpoint, and the requests that
\* wait are exactly those in the queue, once each
PoolBound ==
    /\ Cardinality(Running) <= 4
    /\ \A r \in Rids :
        Cardinality(QueuePositions(r)) = (IF req[r].pc = "queued" THEN 1 ELSE 0)
    /\ \A r \in Rids :
        InPool(r) => req[r].endpoint \in {"info", "download", "stream"}

\* with 4 extractions running a waiting request cannot start, with fewer the
\* oldest one can; /, /health and a fresh cache hit can be answered at once
\* whatever the workers do
PoolProgress ==
    /\ work_queue # <<>> =>
        (ENABLED WorkerStart(Head(work_queue)) <=> Cardinality(Running) < 4)
    /\ \A r \in Rids : Arrives(r) =>
        /\ ENABLED root(r)
        /\ ENABLED health_check(r)
        /\ \A url \in SharedUrls :
            Fresh(get_cache_key(url)) => ENABLED get_video_info(r, url)

\* this step is the arrival of a request that needs an extraction
PoolArrival(r) == ~InPool(r) /\ InPool(r)'

\* C16: at most 4 extractions run at any moment, counted over /info,
\* /download and the pre-fetch of /stream; a request that arrives while 4
\* are running waits in the queue and starts when a running one has
\* finished; /, /health and fresh cache hits of /info are answered by the
\* event loop in one step, also while all 4 workers are busy.
C16_PoolOfFour ==
    [][/\ PoolBound /\ PoolBound'
       /\ PoolProgress
       /\ \A r \in Rids :
            /\ PoolArrival(r) =>
                /\ req'[r].pc = "queued"
                /\ work_queue' = Append(work_queue, r)
                /\ Running' = Running
            /\ (req[r].pc = "queued" /\ req'[r].pc = "running") =>
                /\ Cardinality(Running) < 4
                /\ Head(work_queue) = r
            /\ (Arrives(r) /\ req'[r].pc = "done"
                    /\ <<req[r], resp[r]>> # <<req'[r], resp'[r]>>) =>
                /\ resp'[r].status = 200
                /\ work_queue' = work_queue /\ Running' = Running
      ]_vars

\* 4 extractions are running for three different endpoints, a fifth request
\* waits, and a sixth has just been answered from the cache
C16_Witness ==
    /\ Cardinality(Running) = 4
    /\ {req[r].endpoint : r \in Running} = {"info", "download", "stream"}
    /\ Len(work_queue) = 1
    /\ \E r \in Rids :
            /\ req[r].endpoint = "info" /\ req[r].pc = "done"
            /\ req[r].outcome.kind = "pending" /\ resp[r].status = 200

-----------------------------------------------------------------------------
(* Termination of the relay *)

\* generate() is suspended in stdout.read() with nothing to read, or in
\* process.wait(), and the child has not exited
RelayWaitsForChild(r) ==
    /\ proc[r].child = "running"
    /\ \/ req[r].pc = "read" /\ proc[r].stdout = <<>>
       \/ req[r].pc = "wait"

\* C17: a stream that spawned a child never waits forever; in particular,
\* while the client is there, the relay is never waiting for the child's
\* output or exit while the child is suspended writing to its error pipe,
\* which the relay reads only after the child has exited.
C17_NoPipeDeadlock ==
    \A r \in Rids :
        ~(resp[r].connected /\ RelayWaitsForChild(r) /\ proc[r].blocked)
=============================================================================
